---- MODULE Spec2Model ----
(***************************************************************************)
(* Model of awsiot/iotjobs.py: the IotJobsClient request/response and      *)
(* streaming operations over a shared MQTT connection, together with the   *)
(* payload classes' to_payload / from_payload conversions.                 *)
(***************************************************************************)
EXTENDS Integers, Sequences, FiniteSets, TLC

(***************************************************************************)
(* Bounds of the model.                                                    *)
(***************************************************************************)
MaxSubs == 2
MaxAcks == 3
MaxMsgs == 2
NumAckThreads == 2

(***************************************************************************)
(* Python / JSON values.  json.loads maps JSON null, booleans, numbers,    *)
(* strings, arrays and objects to None, bool, int, str, list and dict; one *)
(* representation serves both sides.                                       *)
(***************************************************************************)
None == [kind |-> "null", n |-> 0, s |-> ""]
JBool(b) == [kind |-> "bool", n |-> IF b THEN 1 ELSE 0, s |-> ""]
JInt(n) == [kind |-> "int", n |-> n, s |-> ""]
JStr(s) == [kind |-> "str", n |-> 0, s |-> s]
JList(len) == [kind |-> "list", n |-> len, s |-> ""]
JMap(f) == [kind |-> "map", f |-> f]
DateTime(n) == [kind |-> "datetime", n |-> n, s |-> ""]
\* the n-th string drawn from uuid.uuid4()
Uuid(n) == [kind |-> "str", n |-> n, s |-> "uuid4"]
\* an exception raised by the runtime or the transport; instances of the
\* payload classes are records of kind "object"
Exc(cls) == [kind |-> "exc", cls |-> cls]

EmptyDict == [k \in {} |-> None]

\* Python truth value testing, as used by every "if val:" and "if self.x:"
Truthy(v) ==
    CASE v.kind = "null" -> FALSE
      [] v.kind = "bool" -> v.n = 1
      [] v.kind = "int" -> v.n # 0
      [] v.kind = "str" -> v.s # ""
      [] v.kind = "list" -> v.n # 0
      [] v.kind = "map" -> DOMAIN v.f # {}
      [] OTHER -> TRUE

\* results of a call that may raise
Ok(v) == [ok |-> TRUE, val |-> v]
Raise(cls) == [ok |-> FALSE, val |-> Exc(cls)]

(***************************************************************************)
(* json.dumps / json.loads.  A wire text is either not JSON at all or the  *)
(* serialization of a value.                                               *)
(***************************************************************************)
InvalidText == [wf |-> "invalid"]
json_dumps(v) == [wf |-> "json", val |-> v]
json_loads(w) == IF w.wf = "json" THEN Ok(w.val) ELSE Raise("ValueError")

\* payload.get(key): AttributeError when payload is no dict
HasGet(p) == p.kind = "map"
Get(p, key) == IF key \in DOMAIN p.f THEN p.f[key] ELSE None

\* datetime.datetime.fromtimestamp(val), reached only for truthy val
TimestampOk(v) == v.kind \in {"int", "bool"}
fromtimestamp(v) == DateTime(v.n)

\* "val = payload.get(key); if val: new.field = val"
Field(p, key) == IF Truthy(Get(p, key)) THEN Get(p, key) ELSE None
\* "val = payload.get(key); if val: new.field = datetime.fromtimestamp(val)"
TimeField(p, key) ==
    IF Truthy(Get(p, key)) THEN fromtimestamp(Get(p, key)) ELSE None
TimeFieldsOk(p, keys) ==
    \A key \in keys : Truthy(Get(p, key)) => TimestampOk(Get(p, key))

JobExecutionData_from_payload(p) ==
    IF ~HasGet(p) THEN Raise("AttributeError")
    ELSE IF ~TimeFieldsOk(p, {"lastUpdatedAt", "queuedAt", "startedAt"})
    THEN Raise("TypeError")
    ELSE Ok([kind |-> "object", cls |-> "JobExecutionData",
             execution_number |-> Field(p, "executionNumber"),
             job_document |-> Field(p, "jobDocument"),
             job_id |-> Field(p, "jobId"),
             last_updated_at |-> TimeField(p, "lastUpdatedAt"),
             queued_at |-> TimeField(p, "queuedAt"),
             started_at |-> TimeField(p, "startedAt"),
             status |-> Field(p, "status"),
             thing_name |-> Field(p, "thingName"),
             version_number |-> Field(p, "versionNumber")])

JobExecutionState_from_payload(p) ==
    IF ~HasGet(p) THEN Raise("AttributeError")
    ELSE Ok([kind |-> "object", cls |-> "JobExecutionState",
             status |-> Field(p, "status"),
             status_details |-> Field(p, "statusDetails"),
             version_number |-> Field(p, "versionNumber")])

\* "val = payload.get(key); if val: new.field = Nested.from_payload(val)"
NestedData(p, key) ==
    IF Truthy(Get(p, key)) THEN JobExecutionData_from_payload(Get(p, key))
    ELSE Ok(None)
NestedState(p, key) ==
    IF Truthy(Get(p, key)) THEN JobExecutionState_from_payload(Get(p, key))
    ELSE Ok(None)

DescribeJobExecutionResponse_from_payload(p) ==
    IF ~HasGet(p) THEN Raise("AttributeError")
    ELSE IF ~NestedData(p, "execution").ok THEN NestedData(p, "execution")
    ELSE IF ~TimeFieldsOk(p, {"timestamp"}) THEN Raise("TypeError")
    ELSE Ok([kind |-> "object", cls |-> "DescribeJobExecutionResponse",
             client_token |-> Field(p, "clientToken"),
             execution |-> NestedData(p, "execution").val,
             timestamp |-> TimeField(p, "timestamp")])

RejectedError_from_payload(p) ==
    IF ~HasGet(p) THEN Raise("AttributeError")
    ELSE IF ~NestedState(p, "executionState").ok
    THEN NestedState(p, "executionState")
    ELSE IF ~TimeFieldsOk(p, {"timestamp"}) THEN Raise("TypeError")
    ELSE Ok([kind |-> "object", cls |-> "RejectedError",
             client_token |-> Field(p, "clientToken"),
             code |-> Field(p, "code"),
             execution_state |-> NestedState(p, "executionState").val,
             message |-> Field(p, "message"),
             timestamp |-> TimeField(p, "timestamp")])

NextJobExecutionChangedEvent_from_payload(p) ==
    IF ~HasGet(p) THEN Raise("AttributeError")
    ELSE IF ~NestedData(p, "execution").ok THEN NestedData(p, "execution")
    ELSE IF ~TimeFieldsOk(p, {"timestamp"}) THEN Raise("TypeError")
    ELSE Ok([kind |-> "object", cls |-> "NextJobExecutionChangedEvent",
             execution |-> NestedData(p, "execution").val,
             timestamp |-> TimeField(p, "timestamp")])

\* sub.payload_class.from_payload(payload)
from_payload(cls, p) ==
    CASE cls = "DescribeJobExecutionResponse" ->
             DescribeJobExecutionResponse_from_payload(p)
      [] cls = "RejectedError" -> RejectedError_from_payload(p)
      [] cls = "NextJobExecutionChangedEvent" ->
             NextJobExecutionChangedEvent_from_payload(p)

\* DescribeJobExecutionRequest.to_payload: only truthy attributes are written
PayloadKeys(input) ==
    {k \in {"clientToken", "executionNumber", "includeJobDocument"} :
        Truthy(CASE k = "clientToken" -> input.client_token
                 [] k = "executionNumber" -> input.execution_number
                 [] k = "includeJobDocument" -> input.include_job_document)}
DescribeJobExecutionRequest_to_payload(input) ==
    JMap([k \in PayloadKeys(input) |->
            CASE k = "clientToken" -> input.client_token
              [] k = "executionNumber" -> input.execution_number
              [] k = "includeJobDocument" -> input.include_job_document])


(***************************************************************************)
(* concurrent.futures.Future.  Up to Python 3.7 set_result/set_exception   *)
(* store the value and mark the future finished whatever its state; from   *)
(* Python 3.8 on they raise InvalidStateError on a finished future.  The   *)
(* module runs on either, so the behaviour is a parameter (strict).        *)
(***************************************************************************)
NewFuture == [state |-> "Pending", value |-> None]

set_result(f, v, strict) ==
    IF strict /\ f.state # "Pending"
    THEN [fut |-> f, raised |-> TRUE, exc |-> Exc("InvalidStateError")]
    ELSE [fut |-> [state |-> "Resolved", value |-> v], raised |-> FALSE,
          exc |-> None]

set_exception(f, e, strict) ==
    IF strict /\ f.state # "Pending"
    THEN [fut |-> f, raised |-> TRUE, exc |-> Exc("InvalidStateError")]
    ELSE [fut |-> [state |-> "Rejected", value |-> e], raised |-> FALSE,
          exc |-> None]

(***************************************************************************)
(* Subscription descriptors, as the public operations build them.          *)
(***************************************************************************)
Accepted == [topic |-> "get/accepted",
             payload_class |-> "DescribeJobExecutionResponse",
             is_error |-> FALSE]
Rejected == [topic |-> "get/rejected",
             payload_class |-> "RejectedError",
             is_error |-> TRUE]
\* _SubscriptionInfo of get_next_job_execution_changed; callback n is the
\* caller's n-th handler
NotifyNext(n) == [topic |-> "notify-next", callback |-> n,
                  payload_class |-> "NextJobExecutionChangedEvent"]

\* lists of length 0..len over S
RECURSIVE ListsOf(_, _)
ListsOf(S, len) ==
    IF len = 0 THEN {<<>>}
    ELSE LET shorter == ListsOf(S, len - 1)
         IN shorter \cup {Append(l, x) : l \in {m \in shorter : Len(m) = len - 1},
                                          x \in S}
RpcSubscriptionLists == ListsOf({Accepted, Rejected}, MaxSubs)
StreamSubscriptionLists ==
    {[n \in 1..k |-> NotifyNext(n)] : k \in 0..MaxSubs}

\* request objects handed to describe_job_execution
Inputs ==
    {[client_token |-> None, execution_number |-> None,
      include_job_document |-> None],
     [client_token |-> JStr("abc"), execution_number |-> JInt(1),
      include_job_document |-> JBool(TRUE)]}

\* texts the transport delivers on a subscribed topic
AcceptedText ==
    json_dumps(JMap([clientToken |-> JStr("abc"), timestamp |-> JInt(1000)]))
RejectedText ==
    json_dumps(JMap([clientToken |-> JStr("abc"), code |-> JStr("InvalidRequest"),
                     message |-> JStr("bad request")]))
ListText == json_dumps(JList(1))
BadExecutionText ==
    json_dumps(JMap([clientToken |-> JStr("xyz"), execution |-> JInt(5)]))
Texts == {AcceptedText, RejectedText, ListText, BadExecutionText, InvalidText}

\* a callable the caller supplies as its n-th callback
Callback(n) == [kind |-> "function", n |-> n, s |-> ""]
\* NextJobExecutionChangedEventsHandler objects: callback unset, callback set
Handler(cb) == [kind |-> "handler", on_next_job_execution_changed |-> cb]
Handlers == {Handler(None), Handler(Callback(1))}

\* the invocations in flight on the one connection
Invocations == {1}

VARIABLES
    strict,          \* Future raises InvalidStateError when already finished
    pc,              \* per invocation: "idle", "subscribing", "returned",
                     \* "raised" (the operation call ended in an exception)
    mode,            \* per invocation: "none", "rpc", "stream"
    subscriptions,   \* per invocation: the list of descriptors
    subIdx,          \* per invocation: loop iterations begun; the loop
                     \* variable sub is subscriptions[subIdx]
    suback_counter,  \* per invocation: len(suback_counter)
    future,          \* per invocation: the Future
    request,         \* per invocation: input_json_payload
    pubCalls,        \* per invocation: publish calls issued
    settles,         \* per invocation: successful set_result/set_exception
    acked,           \* per invocation: subscriptions whose suback was delivered
    acks,            \* per invocation: on_suback calls delivered
    msgs,            \* per invocation: messages delivered
    uuids,           \* uuid4 strings drawn so far
    ack,             \* per ack thread: position inside on_suback
    last,            \* the latest transport callback and how it ended
    given,           \* per invocation: the argument the caller passed
    undecoded,       \* per invocation: stream messages that failed to decode
    obj,             \* conversions: the object or payload being converted
    out,             \* conversions: the result of the conversion
    conv             \* conversions: the conversion applied, "none" before

vars == <<strict, pc, mode, subscriptions, subIdx, suback_counter, future,
          request, pubCalls, settles, acked, acks, msgs, uuids, ack, last,
          given, undecoded, obj, out, conv>>

NoCall == [op |-> "none", inv |-> 0, h |-> 0, text |-> InvalidText,
           pre |-> "Pending", escaped |-> FALSE, calls |-> <<>>,
           pub |-> "none"]

AckThreads == 1..NumAckThreads
IdleThread == [at |-> "idle", inv |-> 0]

Init ==
    /\ strict \in BOOLEAN
    /\ pc = [i \in Invocations |-> "idle"]
    /\ mode = [i \in Invocations |-> "none"]
    /\ subscriptions = [i \in Invocations |-> <<>>]
    /\ subIdx = [i \in Invocations |-> 0]
    /\ suback_counter = [i \in Invocations |-> 0]
    /\ future = [i \in Invocations |-> NewFuture]
    /\ request = [i \in Invocations |-> InvalidText]
    /\ pubCalls = [i \in Invocations |-> 0]
    /\ settles = [i \in Invocations |-> 0]
    /\ acked = [i \in Invocations |-> {}]
    /\ acks = [i \in Invocations |-> 0]
    /\ msgs = [i \in Invocations |-> 0]
    /\ uuids = 0
    /\ ack = [t \in AckThreads |-> IdleThread]
    /\ last = NoCall
    /\ given = [i \in Invocations |-> None]
    /\ undecoded = [i \in Invocations |-> FALSE]
    /\ obj = None
    /\ out = None
    /\ conv = "none"


(***************************************************************************)
(* _rpc_operation and _subscribe_operation up to their subscribe loops.    *)
(***************************************************************************)
\* the token generator returning one and the same string every time
WithToken_Constant(input, n) ==
    IF Truthy(input.client_token) THEN input
    ELSE [input EXCEPT !.client_token = Uuid(1)]

\* lines 154-155: a falsy client_token is replaced by str(uuid.uuid4())
WithToken(input, n) ==
    IF Truthy(input.client_token) THEN input
    ELSE [input EXCEPT !.client_token = Uuid(n)]

\* _rpc_operation with a counter of one entry whatever the number of
\* subscriptions
RpcOperation_SingleEntry(i, input, subs) ==
    /\ pc[i] = "idle"
    /\ pc' = [pc EXCEPT ![i] = "subscribing"]
    /\ mode' = [mode EXCEPT ![i] = "rpc"]
    /\ uuids' = IF Truthy(input.client_token) THEN uuids ELSE uuids + 1
    /\ request' = [request EXCEPT ![i] =
          json_dumps(DescribeJobExecutionRequest_to_payload(
                         WithToken(input, uuids + 1)))]
    /\ given' = [given EXCEPT ![i] = input]
    /\ future' = [future EXCEPT ![i] = NewFuture]
    /\ subscriptions' = [subscriptions EXCEPT ![i] = subs]
    /\ suback_counter' = [suback_counter EXCEPT ![i] =
                              IF Len(subs) > 0 THEN 1 ELSE 0]
    /\ UNCHANGED <<obj, out, conv, undecoded,
                   strict, subIdx, pubCalls, settles, acked, acks, msgs, ack,
                   last>>

RpcOperation(i, input, subs) ==
    /\ pc[i] = "idle"
    /\ pc' = [pc EXCEPT ![i] = "subscribing"]
    /\ mode' = [mode EXCEPT ![i] = "rpc"]
    /\ uuids' = IF Truthy(input.client_token) THEN uuids ELSE uuids + 1
    /\ request' = [request EXCEPT ![i] =
          json_dumps(DescribeJobExecutionRequest_to_payload(
                         WithToken(input, uuids + 1)))]
    /\ given' = [given EXCEPT ![i] = input]
    /\ future' = [future EXCEPT ![i] = NewFuture]
    /\ subscriptions' = [subscriptions EXCEPT ![i] = subs]
    /\ suback_counter' = [suback_counter EXCEPT ![i] = Len(subs)]
    /\ UNCHANGED <<obj, out, conv, undecoded,
                   strict, subIdx, pubCalls, settles, acked, acks, msgs, ack,
                   last>>

SubscribeOperation(i, subs) ==
    /\ pc[i] = "idle"
    /\ pc' = [pc EXCEPT ![i] = "subscribing"]
    /\ mode' = [mode EXCEPT ![i] = "stream"]
    /\ future' = [future EXCEPT ![i] = NewFuture]
    /\ subscriptions' = [subscriptions EXCEPT ![i] = subs]
    /\ suback_counter' = [suback_counter EXCEPT ![i] = Len(subs)]
    /\ UNCHANGED <<obj, out, conv, given, undecoded,
                   strict, subIdx, request, pubCalls, settles, acked, acks,
                   msgs, uuids, ack, last>>

\* get_next_job_execution_changed without the test of the callback
GetNextJobExecutionChanged_NoCheck(i, handler) ==
    /\ pc[i] = "idle"
    /\ given' = [given EXCEPT ![i] = handler]
    /\ pc' = [pc EXCEPT ![i] = "subscribing"]
    /\ mode' = [mode EXCEPT ![i] = "stream"]
    /\ future' = [future EXCEPT ![i] = NewFuture]
    /\ subscriptions' = [subscriptions EXCEPT ![i] =
           <<NotifyNext(handler.on_next_job_execution_changed.n)>>]
    /\ suback_counter' = [suback_counter EXCEPT ![i] = 1]
    /\ UNCHANGED <<obj, out, conv, undecoded,
                   strict, subIdx, request, pubCalls, settles, acked, acks,
                   msgs, uuids, ack, last>>

\* get_next_job_execution_changed: ValueError when the handler's callback
\* is unset, else _subscribe_operation with the one descriptor
GetNextJobExecutionChanged(i, handler) ==
    /\ pc[i] = "idle"
    /\ given' = [given EXCEPT ![i] = handler]
    /\ IF ~Truthy(handler.on_next_job_execution_changed)
       THEN /\ pc' = [pc EXCEPT ![i] = "raised"]
            /\ UNCHANGED <<mode, future, subscriptions, suback_counter>>
       ELSE /\ pc' = [pc EXCEPT ![i] = "subscribing"]
            /\ mode' = [mode EXCEPT ![i] = "stream"]
            /\ future' = [future EXCEPT ![i] = NewFuture]
            /\ subscriptions' = [subscriptions EXCEPT ![i] =
                   <<NotifyNext(handler.on_next_job_execution_changed.n)>>]
            /\ suback_counter' = [suback_counter EXCEPT ![i] = 1]
    /\ UNCHANGED <<obj, out, conv, undecoded,
                   strict, subIdx, request, pubCalls, settles, acked, acks,
                   msgs, uuids, ack, last>>

\* one iteration of "for sub in subscriptions": bind sub, define the
\* handler, call mqtt_connection.subscribe
Subscribe(i) ==
    /\ pc[i] = "subscribing"
    /\ subIdx[i] < Len(subscriptions[i])
    /\ subIdx' = [subIdx EXCEPT ![i] = @ + 1]
    /\ UNCHANGED <<obj, out, conv, given, undecoded,
                   strict, pc, mode, subscriptions, suback_counter, future,
                   request, pubCalls, settles, acked, acks, msgs, uuids, ack,
                   last>>

\* an iteration whose mqtt_connection.subscribe raises: the call is in no
\* try, the exception leaves the operation and the future is not returned;
\* the handlers registered by earlier iterations stay registered
SubscribeFails(i) ==
    /\ pc[i] = "subscribing"
    /\ subIdx[i] < Len(subscriptions[i])
    /\ pc' = [pc EXCEPT ![i] = "raised"]
    /\ UNCHANGED <<obj, out, conv, given, undecoded,
                   strict, mode, subscriptions, subIdx, suback_counter, future,
                   request, pubCalls, settles, acked, acks, msgs, uuids, ack,
                   last>>

\* "return future"
Return(i) ==
    /\ pc[i] = "subscribing"
    /\ subIdx[i] = Len(subscriptions[i])
    /\ pc' = [pc EXCEPT ![i] = "returned"]
    /\ UNCHANGED <<obj, out, conv, given, undecoded,
                   strict, mode, subscriptions, subIdx, suback_counter, future,
                   request, pubCalls, settles, acked, acks, msgs, uuids, ack,
                   last>>

(***************************************************************************)
(* The handlers the operations register with the connection.               *)
(***************************************************************************)
\* the descriptor a handler of the invocation sees: the closures read the
\* loop variable sub when they run, not when they were defined
BoundSub(subs, idx, h) == subs[idx]
\* the index the loop variable holds: the iteration whose subscribe raised
\* had bound sub already
LoopVar(i) == IF pc[i] = "raised" THEN subIdx[i] + 1 ELSE subIdx[i]

\* mutants of Completion: completing one acknowledgement early, and a
\* publish whose failure is not caught
Completion_OneEarly(m, counter, f, fails, st) ==
    IF counter > 1
    THEN [fut |-> f, escaped |-> FALSE, pub |-> "none", set |-> 0]
    ELSE IF m = "rpc"
    THEN IF fails
         THEN LET r == set_exception(f, Exc("PublishFailure"), st)
              IN [fut |-> r.fut, escaped |-> r.raised, pub |-> "failed",
                  set |-> IF r.raised THEN 0 ELSE 1]
         ELSE [fut |-> f, escaped |-> FALSE, pub |-> "ok", set |-> 0]
    ELSE LET r == set_result(f, None, st)
         IN [fut |-> r.fut, escaped |-> r.raised, pub |-> "none",
             set |-> IF r.raised THEN 0 ELSE 1]

Completion_Uncaught(m, counter, f, fails, st) ==
    IF counter # 0
    THEN [fut |-> f, escaped |-> FALSE, pub |-> "none", set |-> 0]
    ELSE IF m = "rpc"
    THEN IF fails
         THEN [fut |-> f, escaped |-> TRUE, pub |-> "failed", set |-> 0]
         ELSE [fut |-> f, escaped |-> FALSE, pub |-> "ok", set |-> 0]
    ELSE LET r == set_result(f, None, st)
         IN [fut |-> r.fut, escaped |-> r.raised, pub |-> "none",
             set |-> IF r.raised THEN 0 ELSE 1]

\* the body of on_suback once the counter was popped: publish on empty
\* (rpc, inside try/except) or set_result(None) (stream, no try)
Completion(m, counter, f, fails, st) ==
    IF counter # 0
    THEN [fut |-> f, escaped |-> FALSE, pub |-> "none", set |-> 0]
    ELSE IF m = "rpc"
    THEN IF fails
         THEN LET r == set_exception(f, Exc("PublishFailure"), st)
              IN [fut |-> r.fut, escaped |-> r.raised, pub |-> "failed",
                  set |-> IF r.raised THEN 0 ELSE 1]
         ELSE [fut |-> f, escaped |-> FALSE, pub |-> "ok", set |-> 0]
    ELSE LET r == set_result(f, None, st)
         IN [fut |-> r.fut, escaped |-> r.raised, pub |-> "none",
             set |-> IF r.raised THEN 0 ELSE 1]

\* on_suback completing again on every acknowledgement after the last
on_suback_Relatch(m, counter, f, fails, st) ==
    IF counter = 0
    THEN LET c == Completion(m, 0, f, fails, st)
         IN [counter |-> 0, fut |-> c.fut, escaped |-> c.escaped,
             pub |-> c.pub, set |-> c.set]
    ELSE LET c == Completion(m, counter - 1, f, fails, st)
         IN [counter |-> counter - 1, fut |-> c.fut, escaped |-> c.escaped,
             pub |-> c.pub, set |-> c.set]

\* on_suback popping without the test of the list
on_suback_Unguarded(m, counter, f, fails, st) ==
    LET c == Completion(m, counter - 1, f, fails, st)
    IN [counter |-> counter - 1, fut |-> c.fut, escaped |-> c.escaped,
        pub |-> c.pub, set |-> c.set]

\* on_suback run without interruption; counter is len(suback_counter)
on_suback(m, counter, f, fails, st) ==
    IF counter = 0
    THEN [counter |-> 0, fut |-> f, escaped |-> FALSE, pub |-> "none",
          set |-> 0]
    ELSE LET c == Completion(m, counter - 1, f, fails, st)
         IN [counter |-> counter - 1, fut |-> c.fut, escaped |-> c.escaped,
             pub |-> c.pub, set |-> c.set]

\* on_suback working on one gate and one future shared by all invocations
OnSuback_SharedGate(i, s, fails) ==
    /\ mode[i] \in {"rpc", "stream"}
    /\ s \in 1..subIdx[i]
    /\ acks[i] < MaxAcks
    /\ LET r == on_suback(mode[1], suback_counter[1], future[1], fails, strict)
       IN /\ suback_counter' = [suback_counter EXCEPT ![1] = r.counter]
          /\ future' = [future EXCEPT ![1] = r.fut]
          /\ pubCalls' = [pubCalls EXCEPT ![1] =
                             IF r.pub = "none" THEN @ ELSE @ + 1]
          /\ settles' = [settles EXCEPT ![1] = @ + r.set]
          /\ last' = [op |-> "suback", inv |-> i, h |-> s,
                      text |-> InvalidText, pre |-> future[1].state,
                      escaped |-> r.escaped, calls |-> <<>>, pub |-> r.pub]
    /\ acked' = [acked EXCEPT ![i] = @ \cup {s}]
    /\ acks' = [acks EXCEPT ![i] = @ + 1]
    /\ UNCHANGED <<obj, out, conv, given, undecoded,
                   strict, pc, mode, subscriptions, subIdx, request, msgs,
                   uuids, ack>>

OnSuback(i, s, fails) ==
    /\ mode[i] \in {"rpc", "stream"}
    /\ s \in 1..subIdx[i]
    /\ acks[i] < MaxAcks
    /\ LET r == on_suback(mode[i], suback_counter[i], future[i], fails, strict)
       IN /\ suback_counter' = [suback_counter EXCEPT ![i] = r.counter]
          /\ future' = [future EXCEPT ![i] = r.fut]
          /\ pubCalls' = [pubCalls EXCEPT ![i] =
                             IF r.pub = "none" THEN @ ELSE @ + 1]
          /\ settles' = [settles EXCEPT ![i] = @ + r.set]
          /\ last' = [op |-> "suback", inv |-> i, h |-> s,
                      text |-> InvalidText, pre |-> future[i].state,
                      escaped |-> r.escaped, calls |-> <<>>, pub |-> r.pub]
    /\ acked' = [acked EXCEPT ![i] = @ \cup {s}]
    /\ acks' = [acks EXCEPT ![i] = @ + 1]
    /\ UNCHANGED <<obj, out, conv, given, undecoded,
                   strict, pc, mode, subscriptions, subIdx, request, msgs,
                   uuids, ack>>

\* mutant of on_response: no except clause, a decode error propagates
on_response_NoExcept(sub, f, text, st) ==
    LET loaded == json_loads(text)
        decoded == IF loaded.ok
                   THEN from_payload(sub.payload_class, loaded.val)
                   ELSE loaded
        tried == IF ~decoded.ok
                 THEN [fut |-> f, raised |-> TRUE, exc |-> decoded.val]
                 ELSE IF sub.is_error
                 THEN set_exception(f, decoded.val, st)
                 ELSE set_result(f, decoded.val, st)
    IN [fut |-> tried.fut, escaped |-> tried.raised,
        set |-> IF tried.raised THEN 0 ELSE 1]

\* on_response that settles nothing for a response from an error topic
on_response_SuccessOnly(sub, f, text, st) ==
    LET loaded == json_loads(text)
        decoded == IF loaded.ok
                   THEN from_payload(sub.payload_class, loaded.val)
                   ELSE loaded
        tried == IF ~decoded.ok
                 THEN [fut |-> f, raised |-> TRUE, exc |-> decoded.val]
                 ELSE IF sub.is_error
                 THEN [fut |-> f, raised |-> FALSE, exc |-> None]
                 ELSE set_result(f, decoded.val, st)
        handled == IF tried.raised
                   THEN set_exception(tried.fut, tried.exc, st)
                   ELSE tried
    IN [fut |-> handled.fut, escaped |-> handled.raised,
        set |-> IF handled.raised \/ handled.fut = f THEN 0 ELSE 1]

\* on_response of _rpc_operation
on_response(sub, f, text, st) ==
    LET loaded == json_loads(text)
        decoded == IF loaded.ok
                   THEN from_payload(sub.payload_class, loaded.val)
                   ELSE loaded
        tried == IF ~decoded.ok
                 THEN [fut |-> f, raised |-> TRUE, exc |-> decoded.val]
                 ELSE IF sub.is_error
                 THEN set_exception(f, decoded.val, st)
                 ELSE set_result(f, decoded.val, st)
        handled == IF tried.raised
                   THEN set_exception(tried.fut, tried.exc, st)
                   ELSE tried
    IN [fut |-> handled.fut, escaped |-> handled.raised,
        set |-> IF handled.raised THEN 0 ELSE 1]

OnResponse(i, h, text) ==
    /\ mode[i] = "rpc"
    /\ h \in 1..subIdx[i]
    /\ msgs[i] < MaxMsgs
    /\ LET r == on_response(BoundSub(subscriptions[i], LoopVar(i), h),
                            future[i], text, strict)
       IN /\ future' = [future EXCEPT ![i] = r.fut]
          /\ settles' = [settles EXCEPT ![i] = @ + r.set]
          /\ last' = [op |-> "response", inv |-> i, h |-> h, text |-> text,
                      pre |-> future[i].state, escaped |-> r.escaped,
                      calls |-> <<>>, pub |-> "none"]
    /\ msgs' = [msgs EXCEPT ![i] = @ + 1]
    /\ UNCHANGED <<obj, out, conv, given, undecoded,
                   strict, pc, mode, subscriptions, subIdx, suback_counter,
                   request, pubCalls, acked, acks, uuids, ack>>

\* callback_wrapper handing the decode failure itself to the callback
callback_wrapper_PassFailure(sub, text, failsEvent, failsNone) ==
    LET loaded == json_loads(text)
        decoded == IF loaded.ok
                   THEN from_payload(sub.payload_class, loaded.val)
                   ELSE loaded
        withEvent == [cb |-> sub.callback, arg |-> decoded.val]
        withNone == [cb |-> sub.callback, arg |-> None]
    IN IF ~failsEvent
       THEN [calls |-> <<withEvent>>, escaped |-> FALSE]
       ELSE [calls |-> <<withEvent, withNone>>, escaped |-> failsNone]

\* callback_wrapper of _subscribe_operation; failsEvent / failsNone say
\* whether the caller's callback raises when given an event / None
callback_wrapper(sub, text, failsEvent, failsNone) ==
    LET loaded == json_loads(text)
        decoded == IF loaded.ok
                   THEN from_payload(sub.payload_class, loaded.val)
                   ELSE loaded
        withEvent == [cb |-> sub.callback, arg |-> decoded.val]
        withNone == [cb |-> sub.callback, arg |-> None]
    IN IF decoded.ok /\ ~failsEvent
       THEN [calls |-> <<withEvent>>, escaped |-> FALSE]
       ELSE IF decoded.ok
       THEN [calls |-> <<withEvent, withNone>>, escaped |-> failsNone]
       ELSE [calls |-> <<withNone>>, escaped |-> failsNone]

CallbackWrapper(i, h, text, failsEvent, failsNone) ==
    /\ mode[i] = "stream"
    /\ h \in 1..subIdx[i]
    /\ msgs[i] < MaxMsgs
    /\ LET r == callback_wrapper(BoundSub(subscriptions[i], LoopVar(i), h),
                                 text, failsEvent, failsNone)
       IN last' = [op |-> "event", inv |-> i, h |-> h, text |-> text,
                   pre |-> future[i].state, escaped |-> r.escaped,
                   calls |-> r.calls, pub |-> "none"]
          /\ undecoded' = [undecoded EXCEPT ![i] =
                               @ \/ r.calls[1].arg = None]
    /\ msgs' = [msgs EXCEPT ![i] = @ + 1]
    /\ UNCHANGED <<obj, out, conv, given,
                   strict, pc, mode, subscriptions, subIdx, suback_counter,
                   future, request, pubCalls, settles, acked, acks, uuids, ack>>

Next ==
    \E i \in Invocations :
        \/ \E input \in Inputs, subs \in RpcSubscriptionLists :
               RpcOperation(i, input, subs)
        \/ \E subs \in StreamSubscriptionLists : SubscribeOperation(i, subs)
        \/ \E handler \in Handlers : GetNextJobExecutionChanged(i, handler)
        \/ Subscribe(i)
        \/ SubscribeFails(i)
        \/ Return(i)
        \/ \E s \in 1..MaxSubs, fails \in BOOLEAN : OnSuback(i, s, fails)
        \/ \E h \in 1..MaxSubs, text \in Texts : OnResponse(i, h, text)
        \/ \E h \in 1..MaxSubs, text \in Texts, fe \in BOOLEAN, fn \in BOOLEAN :
               CallbackWrapper(i, h, text, fe, fn)

Spec == Init /\ [][Next]_vars


(***************************************************************************)
(* on_suback run by several transport threads at once: its three steps    *)
(* "if suback_counter", "suback_counter.pop()", "if not suback_counter"    *)
(* interleave.  The transport acknowledges each subscription once.         *)
(***************************************************************************)
AckTest(t, i, s) ==
    /\ ack[t].at = "idle"
    /\ mode[i] \in {"rpc", "stream"}
    /\ s \in 1..subIdx[i]
    /\ s \notin acked[i]
    /\ acked' = [acked EXCEPT ![i] = @ \cup {s}]
    /\ acks' = [acks EXCEPT ![i] = @ + 1]
    /\ IF suback_counter[i] # 0
       THEN /\ ack' = [ack EXCEPT ![t] = [at |-> "pop", inv |-> i]]
            /\ last' = last
       ELSE /\ ack' = ack
            /\ last' = [op |-> "suback", inv |-> i, h |-> s,
                        text |-> InvalidText, pre |-> future[i].state,
                        escaped |-> FALSE, calls |-> <<>>, pub |-> "none"]
    /\ UNCHANGED <<obj, out, conv, given, undecoded,
                   strict, pc, mode, subscriptions, subIdx, suback_counter,
                   future, request, pubCalls, settles, msgs, uuids>>

\* list.pop() on an empty list raises IndexError: caught and stored in the
\* future by the rpc handler, not caught by the stream handler
PopEmpty(m, f, st) ==
    IF m = "rpc"
    THEN LET r == set_exception(f, Exc("IndexError"), st)
         IN [fut |-> r.fut, escaped |-> r.raised,
             set |-> IF r.raised THEN 0 ELSE 1]
    ELSE [fut |-> f, escaped |-> TRUE, set |-> 0]

AckPop(t) ==
    /\ ack[t].at = "pop"
    /\ LET i == ack[t].inv
       IN IF suback_counter[i] # 0
          THEN /\ suback_counter' = [suback_counter EXCEPT ![i] = @ - 1]
               /\ ack' = [ack EXCEPT ![t].at = "test"]
               /\ UNCHANGED <<future, settles, last>>
          ELSE LET r == PopEmpty(mode[i], future[i], strict)
               IN /\ future' = [future EXCEPT ![i] = r.fut]
                  /\ settles' = [settles EXCEPT ![i] = @ + r.set]
                  /\ last' = [op |-> "suback", inv |-> i, h |-> 0,
                              text |-> InvalidText, pre |-> future[i].state,
                              escaped |-> r.escaped, calls |-> <<>>,
                              pub |-> "none"]
                  /\ ack' = [ack EXCEPT ![t] = IdleThread]
                  /\ UNCHANGED suback_counter
    /\ UNCHANGED <<obj, out, conv, given, undecoded,
                   strict, pc, mode, subscriptions, subIdx, request, pubCalls,
                   acked, acks, msgs, uuids>>

AckComplete(t, fails) ==
    /\ ack[t].at = "test"
    /\ LET i == ack[t].inv
           r == Completion(mode[i], suback_counter[i], future[i], fails, strict)
       IN /\ future' = [future EXCEPT ![i] = r.fut]
          /\ pubCalls' = [pubCalls EXCEPT ![i] =
                             IF r.pub = "none" THEN @ ELSE @ + 1]
          /\ settles' = [settles EXCEPT ![i] = @ + r.set]
          /\ last' = [op |-> "suback", inv |-> i, h |-> 0,
                      text |-> InvalidText, pre |-> future[i].state,
                      escaped |-> r.escaped, calls |-> <<>>, pub |-> r.pub]
    /\ ack' = [ack EXCEPT ![t] = IdleThread]
    /\ UNCHANGED <<obj, out, conv, given, undecoded,
                   strict, pc, mode, subscriptions, subIdx, suback_counter,
                   request, acked, acks, msgs, uuids>>

ConcNext ==
    \/ \E i \in Invocations :
        \/ \E input \in Inputs, subs \in RpcSubscriptionLists :
               RpcOperation(i, input, subs)
        \/ \E subs \in StreamSubscriptionLists : SubscribeOperation(i, subs)
        \/ Subscribe(i)
        \/ Return(i)
        \/ \E t \in AckThreads, s \in 1..MaxSubs : AckTest(t, i, s)
    \/ \E t \in AckThreads : AckPop(t)
    \/ \E t \in AckThreads, fails \in BOOLEAN : AckComplete(t, fails)

ConcSpec == Init /\ [][ConcNext]_vars

(***************************************************************************)
(* Scheduling: the calling thread runs its loop to the end, and the        *)
(* transport delivers the callbacks it owes.                               *)
(***************************************************************************)
FairSpec ==
    /\ Spec
    /\ WF_vars(\E i \in Invocations : Subscribe(i) \/ Return(i))
    /\ WF_vars(\E i \in Invocations, s \in 1..MaxSubs, fails \in BOOLEAN :
                   OnSuback(i, s, fails))

\* FairSpec with a broker that goes on delivering messages to the
\* registered response handlers
DeliverySpec ==
    /\ FairSpec
    /\ WF_vars(\E i \in Invocations, h \in 1..MaxSubs, text \in Texts :
                   OnResponse(i, h, text))

(***************************************************************************)
(* Two describe_job_execution invocations for the same thing and job on    *)
(* the one connection: both subscribe the same two response topics, and a  *)
(* message on a topic is given to every handler registered for it.         *)
(***************************************************************************)
Invocations2 == {1, 2}

\* the subscriptions list built by describe_job_execution
DescribeSubscriptions == <<Accepted, Rejected>>

\* request objects: token unset, token empty, token given; an object used
\* before carries the token an earlier invocation stored in it
Inputs2(u) ==
    {[client_token |-> tok, execution_number |-> None,
      include_job_document |-> None] :
        tok \in {None, JStr(""), JStr("abc")} \cup {Uuid(n) : n \in 1..u}}

Texts2 == {AcceptedText, BadExecutionText}

Init2 ==
    /\ strict \in BOOLEAN
    /\ pc = [i \in Invocations2 |-> "idle"]
    /\ mode = [i \in Invocations2 |-> "none"]
    /\ subscriptions = [i \in Invocations2 |-> <<>>]
    /\ subIdx = [i \in Invocations2 |-> 0]
    /\ suback_counter = [i \in Invocations2 |-> 0]
    /\ future = [i \in Invocations2 |-> NewFuture]
    /\ request = [i \in Invocations2 |-> InvalidText]
    /\ pubCalls = [i \in Invocations2 |-> 0]
    /\ settles = [i \in Invocations2 |-> 0]
    /\ acked = [i \in Invocations2 |-> {}]
    /\ acks = [i \in Invocations2 |-> 0]
    /\ msgs = [i \in Invocations2 |-> 0]
    /\ uuids = 0
    /\ ack = [t \in AckThreads |-> IdleThread]
    /\ last = NoCall
    /\ given = [i \in Invocations2 |-> None]
    /\ undecoded = [i \in Invocations2 |-> FALSE]
    /\ obj = None
    /\ out = None
    /\ conv = "none"

\* describe_job_execution; the invocations are numbered in call order
DescribeJobExecution(i, input) ==
    /\ \A j \in Invocations2 : j < i => pc[j] # "idle"
    /\ RpcOperation(i, input, DescribeSubscriptions)

\* the acknowledgement of subscription s, sent once by the broker; the
\* publish it may trigger succeeds
SubackOnce(i, s) ==
    /\ s \notin acked[i]
    /\ OnSuback(i, s, FALSE)

\* invocation i has its h-th response handler registered
Registered(i, h) == mode[i] = "rpc" /\ h \in 1..subIdx[i]

\* a transport that keeps one handler per topic: only the first
\* invocation registered for the topic is given the message
Dispatch_FirstOnly(h, text) ==
    LET first == CHOOSE i \in Invocations2 :
                     /\ Registered(i, h)
                     /\ \A j \in Invocations2 : Registered(j, h) => i <= j
        R(i) == on_response(BoundSub(subscriptions[i], LoopVar(i), h),
                            future[i], text, strict)
    IN /\ \E i \in Invocations2 : Registered(i, h)
       /\ \A i \in Invocations2 : Registered(i, h) => msgs[i] < MaxMsgs
       /\ future' = [future EXCEPT ![first] = R(first).fut]
       /\ settles' = [settles EXCEPT ![first] = @ + R(first).set]
       /\ msgs' = [i \in Invocations2 |->
                     IF Registered(i, h) THEN msgs[i] + 1 ELSE msgs[i]]
       /\ last' = [op |-> "dispatch", inv |-> 0, h |-> h, text |-> text,
                   pre |-> "Pending", escaped |-> R(first).escaped,
                   calls |-> [i \in Invocations2 |->
                       [delivered |-> Registered(i, h),
                        pre |-> future[i].state,
                        sub |-> IF Registered(i, h)
                                THEN BoundSub(subscriptions[i], LoopVar(i), h)
                                ELSE Accepted,
                        escaped |-> i = first /\ R(i).escaped]],
                   pub |-> "none"]
       /\ UNCHANGED <<obj, out, conv, given, undecoded,
                      strict, pc, mode, subscriptions, subIdx, suback_counter,
                      request, pubCalls, acked, acks, uuids, ack>>

\* one message on the h-th response topic: the transport calls the
\* on_response of every invocation registered for it, one after the other
Dispatch(h, text) ==
    LET R(i) == on_response(BoundSub(subscriptions[i], LoopVar(i), h),
                            future[i], text, strict)
    IN /\ \E i \in Invocations2 : Registered(i, h)
       /\ \A i \in Invocations2 : Registered(i, h) => msgs[i] < MaxMsgs
       /\ future' = [i \in Invocations2 |->
                       IF Registered(i, h) THEN R(i).fut ELSE future[i]]
       /\ settles' = [i \in Invocations2 |->
                        IF Registered(i, h) THEN settles[i] + R(i).set
                        ELSE settles[i]]
       /\ msgs' = [i \in Invocations2 |->
                     IF Registered(i, h) THEN msgs[i] + 1 ELSE msgs[i]]
       /\ last' = [op |-> "dispatch", inv |-> 0, h |-> h, text |-> text,
                   pre |-> "Pending",
                   escaped |-> \E i \in Invocations2 :
                                  Registered(i, h) /\ R(i).escaped,
                   calls |-> [i \in Invocations2 |->
                       [delivered |-> Registered(i, h),
                        pre |-> future[i].state,
                        sub |-> IF Registered(i, h)
                                THEN BoundSub(subscriptions[i], LoopVar(i), h)
                                ELSE Accepted,
                        escaped |-> Registered(i, h) /\ R(i).escaped]],
                   pub |-> "none"]
       /\ UNCHANGED <<obj, out, conv, given, undecoded,
                      strict, pc, mode, subscriptions, subIdx, suback_counter,
                      request, pubCalls, acked, acks, uuids, ack>>

Next2 ==
    \/ \E i \in Invocations2, input \in Inputs : DescribeJobExecution(i, input)
    \/ \E i \in Invocations2 : Subscribe(i)
    \/ \E i \in Invocations2 : Return(i)
    \/ \E i \in Invocations2, s \in 1..MaxSubs : SubackOnce(i, s)
    \/ \E h \in 1..MaxSubs, text \in Texts2 : Dispatch(h, text)

Spec2 == Init2 /\ [][Next2]_vars

\* the two invocations with every kind of client token, up to the publish
TokenNext ==
    \/ \E i \in Invocations2, input \in Inputs2(uuids) :
           DescribeJobExecution(i, input)
    \/ \E i \in Invocations2 : Subscribe(i)
    \/ \E i \in Invocations2 : Return(i)
    \/ \E i \in Invocations2, s \in 1..MaxSubs : SubackOnce(i, s)

TokenSpec == Init2 /\ [][TokenNext]_vars

\* two invocations, the second one rpc or streaming, with every handler
\* call made on its own: one acknowledgement or one message to one handler;
\* the requests carry the caller's token
IsolationNext ==
    \/ \E i \in Invocations2 :
           \E input \in {x \in Inputs : Truthy(x.client_token)} :
               DescribeJobExecution(i, input)
    \/ GetNextJobExecutionChanged(2, Handler(Callback(1)))
    \/ \E i \in Invocations2 : Subscribe(i)
    \/ \E i \in Invocations2 : Return(i)
    \/ \E i \in Invocations2, s \in 1..MaxSubs : SubackOnce(i, s)
    \/ \E i \in Invocations2, h \in 1..MaxSubs, text \in Texts2 :
           OnResponse(i, h, text)
    \/ \E i \in Invocations2, h \in 1..MaxSubs, text \in Texts2 :
           CallbackWrapper(i, h, text, FALSE, FALSE)

IsolationSpec == Init2 /\ [][IsolationNext]_vars

(***************************************************************************)
(* The conversions on their own: to_payload of the request classes and     *)
(* from_payload of the job execution classes, applied to one input.        *)
(***************************************************************************)
UpdateKeys ==
    {"clientToken", "executionNumber", "expectedVersion", "includeJobDocument",
     "includeJobExecutionState", "status", "statusDetails"}

\* the attribute of a request object that to_payload stores under key
RequestAttr(o, key) ==
    CASE key = "clientToken" -> o.client_token
      [] key = "executionNumber" -> o.execution_number
      [] key = "expectedVersion" -> o.expected_version
      [] key = "includeJobDocument" -> o.include_job_document
      [] key = "includeJobExecutionState" -> o.include_job_execution_state
      [] key = "status" -> o.status
      [] key = "statusDetails" -> o.status_details

\* UpdateJobExecutionRequest.to_payload: "if self.x: payload[key] = self.x"
UpdateJobExecutionRequest_to_payload(o) ==
    JMap([key \in {k \in UpdateKeys : Truthy(RequestAttr(o, k))} |->
              RequestAttr(o, key)])

\* values an optional attribute of each type may hold
StrValues == {None, JStr(""), JStr("abc")}
IntValues == {None, JInt(0), JInt(1)}
BoolValues == {None, JBool(FALSE), JBool(TRUE)}
MapValues == {None, JMap(EmptyDict), JMap([step |-> JStr("one")])}

DescribeRequests ==
    {[kind |-> "object", cls |-> "DescribeJobExecutionRequest",
      client_token |-> ct, execution_number |-> en,
      include_job_document |-> ijd] :
        ct \in StrValues, en \in IntValues, ijd \in BoolValues}

UpdateRequests ==
    {[kind |-> "object", cls |-> "UpdateJobExecutionRequest",
      client_token |-> JStr("abc"), execution_number |-> en,
      expected_version |-> ev, include_job_document |-> ijd,
      include_job_execution_state |-> JBool(TRUE), status |-> st,
      status_details |-> sd] :
        en \in IntValues, ev \in IntValues, ijd \in BoolValues,
        st \in StrValues, sd \in MapValues}

\* payload mappings over some of the keys of V, V[key] the values of key
PayloadsOver(V) ==
    UNION {{JMap(f) : f \in {g \in [K -> UNION {V[key] : key \in K}] :
                                \A key \in K : g[key] \in V[key]}} :
           K \in SUBSET DOMAIN V}

DataValues ==
    [key \in {"executionNumber", "versionNumber", "jobId", "status",
              "queuedAt", "unknownKey"} |->
        CASE key \in {"executionNumber", "versionNumber"} -> {JInt(0), JInt(1)}
          [] key \in {"jobId", "status"} -> {JStr(""), JStr("abc")}
          [] key = "queuedAt" -> {JInt(1000)}
          [] OTHER -> {JStr("abc")}]
DataPayloads == PayloadsOver(DataValues)

StateValues ==
    [key \in {"versionNumber", "status", "unknownKey"} |->
        CASE key = "versionNumber" -> {JInt(0), JInt(1)}
          [] key = "status" -> {JStr(""), JStr("abc")}
          [] OTHER -> {JStr("abc")}]
StatePayloads == PayloadsOver(StateValues)

CodecInit ==
    /\ obj \in DescribeRequests \cup UpdateRequests \cup DataPayloads
                \cup StatePayloads
    /\ out = None
    /\ conv = "none"
    /\ strict = FALSE
    /\ pc = [i \in Invocations |-> "idle"]
    /\ mode = [i \in Invocations |-> "none"]
    /\ subscriptions = [i \in Invocations |-> <<>>]
    /\ subIdx = [i \in Invocations |-> 0]
    /\ suback_counter = [i \in Invocations |-> 0]
    /\ future = [i \in Invocations |-> NewFuture]
    /\ request = [i \in Invocations |-> InvalidText]
    /\ pubCalls = [i \in Invocations |-> 0]
    /\ settles = [i \in Invocations |-> 0]
    /\ acked = [i \in Invocations |-> {}]
    /\ acks = [i \in Invocations |-> 0]
    /\ msgs = [i \in Invocations |-> 0]
    /\ uuids = 0
    /\ ack = [t \in AckThreads |-> IdleThread]
    /\ last = NoCall
    /\ given = [i \in Invocations |-> None]
    /\ undecoded = [i \in Invocations |-> FALSE]

protocolVars ==
    <<strict, pc, mode, subscriptions, subIdx, suback_counter, future,
      request, pubCalls, settles, acked, acks, msgs, uuids, ack, last,
      given, undecoded>>

\* input.to_payload() followed by json.dumps, the text read back by
\* json.loads as a receiver of the request does
DescribeToPayload ==
    /\ conv = "none"
    /\ obj \in DescribeRequests
    /\ conv' = "DescribeJobExecutionRequest.to_payload"
    /\ out' = json_loads(json_dumps(DescribeJobExecutionRequest_to_payload(obj)))
    /\ UNCHANGED <<obj, protocolVars>>

UpdateToPayload ==
    /\ conv = "none"
    /\ obj \in UpdateRequests
    /\ conv' = "UpdateJobExecutionRequest.to_payload"
    /\ out' = json_loads(json_dumps(UpdateJobExecutionRequest_to_payload(obj)))
    /\ UNCHANGED <<obj, protocolVars>>

DataFromPayload ==
    /\ conv = "none"
    /\ obj \in DataPayloads
    /\ conv' = "JobExecutionData.from_payload"
    /\ out' = JobExecutionData_from_payload(obj)
    /\ UNCHANGED <<obj, protocolVars>>

StateFromPayload ==
    /\ conv = "none"
    /\ obj \in StatePayloads
    /\ conv' = "JobExecutionState.from_payload"
    /\ out' = JobExecutionState_from_payload(obj)
    /\ UNCHANGED <<obj, protocolVars>>

CodecNext ==
    \/ DescribeToPayload
    \/ UpdateToPayload
    \/ DataFromPayload
    \/ StateFromPayload

CodecSpec == CodecInit /\ [][CodecNext]_vars


(***************************************************************************)
(* Properties.                                                             *)
(***************************************************************************)
Subs(i) == subscriptions[i]
NumSubs(i) == Len(subscriptions[i])
\* the latest callback was a response delivered to a pending outcome
PendingResponse == last.op = "response" /\ last.pre = "Pending"
\* the text decodes against the payload class cls
Decodable(cls, text) ==
    json_loads(text).ok /\ from_payload(cls, json_loads(text).val).ok
Decoded(cls, text) == from_payload(cls, json_loads(text).val).val
\* invalid serialized form, or valid JSON that is no mapping
Undecodable == {InvalidText, ListText}

\* C1: once a message has settled an outcome as Resolved or Rejected, no
\* further message given to its handlers changes its state or value: the
\* value stays the one of the first message handled.
C1_AtMostOnceSettlement ==
    [][\A i \in Invocations :
          (/\ last.op = "response" /\ last.inv = i
           /\ future[i].state # "Pending"
           /\ last'.op = "response" /\ msgs'[i] = msgs[i] + 1) =>
              future'[i] = future[i]]_vars

\* C2: a request/response invocation with k >= 1 subscriptions has issued
\* no publish while fewer than k acknowledgements were recorded, and exactly
\* one once the k-th was.
C2_AckBeforePublish ==
    \A i \in Invocations :
        (mode[i] = "rpc" /\ NumSubs(i) >= 1) =>
            pubCalls[i] = IF acks[i] >= NumSubs(i) THEN 1 ELSE 0

C2_Witness ==
    /\ mode[1] = "rpc"
    /\ NumSubs(1) = 2
    /\ acked[1] = {1, 2}
    /\ acks[1] = 2
    /\ pubCalls[1] = 1

\* C3: a decodable message given to the handler of the Success-tagged topic
\* while the outcome is Pending resolves it with the value decoded by the
\* success payload class.
C3_SuccessTopicRouting ==
    (/\ PendingResponse
     /\ ~Subs(last.inv)[last.h].is_error
     /\ Decodable(Subs(last.inv)[last.h].payload_class, last.text)) =>
        future[last.inv] =
            [state |-> "Resolved",
             value |-> Decoded(Subs(last.inv)[last.h].payload_class, last.text)]

\* C4: a message given to the handler of an Error-tagged topic while the
\* outcome is Pending rejects it, whatever the payload.
C4_ErrorTopicRouting ==
    (PendingResponse /\ Subs(last.inv)[last.h].is_error) =>
        future[last.inv].state = "Rejected"

\* C5: with the acknowledgement handler running on several threads at once,
\* the completion action runs at most once (one publish, one resolution of
\* the established signal) and no acknowledgement call fails.
C5_GateOnceUnderRaces ==
    \A i \in Invocations :
        /\ pubCalls[i] <= 1
        /\ settles[i] <= 1
        /\ (last.op = "suback" => ~last.escaped)

\* C6: every acknowledgement handler and message handler returns normally
\* to the transport.
C6_NoFaultEscapes == ~last.escaped

\* C7: an invocation with no subscriptions completes its gate: the request
\* is published (request/response) or the established signal is resolved
\* (streaming).
C7_ZeroSubscriptionsComplete ==
    \A i \in Invocations :
        (pc[i] = "returned" /\ NumSubs(i) = 0) ~>
            \/ mode[i] = "rpc" /\ pubCalls[i] >= 1
            \/ mode[i] = "stream" /\ future[i].state = "Resolved"

\* C8: a publish that fails while the outcome is Pending rejects the outcome
\* with that failure, is not raised to the transport, and no invocation ever
\* issues a second publish.
C8_PublishFailureRejects ==
    /\ (last.op = "suback" /\ last.pub = "failed" /\ last.pre = "Pending") =>
           /\ future[last.inv] =
                  [state |-> "Rejected", value |-> Exc("PublishFailure")]
           /\ ~last.escaped
    /\ \A i \in Invocations : pubCalls[i] <= 1

C8_Witness ==
    /\ mode[1] = "rpc"
    /\ future[1] = [state |-> "Rejected", value |-> Exc("PublishFailure")]
    /\ settles[1] = 1
    /\ pubCalls[1] = 1
    /\ acks[1] > NumSubs(1)
    /\ last.op = "suback"
    /\ last.pub = "none"
    /\ ~last.escaped

\* C9: an undecodable message (invalid text, or JSON that is no mapping)
\* given to any handler while the outcome is Pending rejects it with the
\* decode error, which is no instance of a payload class; an outcome whose
\* value is a RejectedError instance came from a decodable message.
C9_DecodeFailureRejects ==
    PendingResponse =>
        /\ last.text = InvalidText =>
               future[last.inv] =
                   [state |-> "Rejected", value |-> Exc("ValueError")]
        /\ last.text = ListText =>
               future[last.inv] =
                   [state |-> "Rejected", value |-> Exc("AttributeError")]
        /\ future[last.inv].value.kind = "object" =>
               /\ last.text \notin Undecodable
               /\ future[last.inv].state = "Rejected" =>
                      future[last.inv].value.cls = "RejectedError"

C9_Witness ==
    /\ PendingResponse
    /\ last.text = ListText
    /\ Subs(last.inv)[last.h] = Accepted
    /\ future[last.inv] = [state |-> "Rejected", value |-> Exc("AttributeError")]

\* C10: for every message given to a streaming handler the caller's callback
\* is invoked exactly once.
C10_StreamCallbackOnce ==
    last.op = "event" => Len(last.calls) = 1

\* C11: a streaming message that fails to decode is handed to the callback
\* as None; every message that decodes is handed over as its decoded event,
\* also after earlier undecodable ones; the stream stays established.
StreamClass == "NextJobExecutionChangedEvent"
C11_DecodeFailureIsolation ==
    \A i \in DOMAIN mode :
        last.op = "event" /\ last.inv = i =>
            /\ mode[i] = "stream"
            /\ Len(last.calls) >= 1
            /\ ~Decodable(StreamClass, last.text) =>
                   last.calls[1].arg = None
            /\ Decodable(StreamClass, last.text) =>
                   last.calls[1].arg = Decoded(StreamClass, last.text)
            /\ undecoded[i] /\ Decodable(StreamClass, last.text) =>
                   last.calls[1].arg.kind = "object"
\* a decoded event delivered after an undecodable message
C11_Witness ==
    \E i \in DOMAIN mode :
        /\ undecoded[i]
        /\ last.op = "event" /\ last.inv = i
        /\ Decodable(StreamClass, last.text)
        /\ last.calls[1].arg = Decoded(StreamClass, last.text)
        /\ msgs[i] = 2

\* C12: the future of a streaming operation with k >= 1 subscriptions is
\* pending while fewer than k acknowledgements were recorded, holds None from
\* the k-th on, is never rejected, and later acknowledgements set nothing.
C12_EstablishedSignal ==
    \A i \in DOMAIN mode :
        mode[i] = "stream" /\ NumSubs(i) >= 1 =>
            /\ future[i] = IF acks[i] >= NumSubs(i)
                           THEN [state |-> "Resolved", value |-> None]
                           ELSE NewFuture
            /\ settles[i] <= 1
            /\ last.op = "suback" /\ last.inv = i => ~last.escaped
\* two subscriptions, three acknowledgements, resolved once
C12_Witness ==
    \E i \in DOMAIN mode :
        /\ mode[i] = "stream" /\ NumSubs(i) = 2
        /\ acks[i] = 3
        /\ last.op = "suback" /\ last.pre = "Resolved"
        /\ future[i] = [state |-> "Resolved", value |-> None]
        /\ settles[i] = 1

\* what json.loads and from_payload make of a text: the object or the error
DecodeOutcome(cls, text) ==
    IF json_loads(text).ok
    THEN from_payload(cls, json_loads(text).val)
    ELSE json_loads(text)
\* the settlement a message gives a pending outcome through descriptor sub
Expected(sub, text) ==
    [state |-> IF DecodeOutcome(sub.payload_class, text).ok /\ ~sub.is_error
               THEN "Resolved" ELSE "Rejected",
     value |-> DecodeOutcome(sub.payload_class, text).val]
\* the client token inside a serialized payload
TokenOf(w) == Get(json_loads(w).val, "clientToken")

\* C13: when one message is given to the handlers of two pending rpc
\* invocations, each invocation settles its own outcome from the message,
\* whatever client token the message carries.
C13_IndependentSettlement ==
    last.op = "dispatch" =>
        \A i \in DOMAIN last.calls :
            last.calls[i].delivered /\ last.calls[i].pre = "Pending" =>
                /\ future[i] = Expected(last.calls[i].sub, last.text)
                /\ settles[i] = 1
                /\ ~last.calls[i].escaped
\* one accepted message resolved both invocations; its token is the token
\* of one request and not of the other
C13_Witness ==
    /\ last.op = "dispatch"
    /\ \A i \in DOMAIN last.calls :
           /\ last.calls[i].delivered /\ last.calls[i].pre = "Pending"
           /\ future[i].state = "Resolved"
           /\ future[i] = Expected(Accepted, last.text)
    /\ TokenOf(request[1]) = TokenOf(last.text)
    /\ TokenOf(request[2]) # TokenOf(last.text)

\* C14: a subscribe that fails while an rpc operation is being set up does
\* not end the operation call in an exception: the caller receives the
\* future, which is then rejected.
C14_SubscribeFailureRejects ==
    \A i \in DOMAIN mode : mode[i] = "rpc" => pc[i] # "raised"

\* C15: a streaming operation called with its callback unset ends in an
\* exception at once: nothing is subscribed, nothing published, no future
\* is created.
C15_MissingCallbackFailsFast ==
    \A i \in DOMAIN mode :
        given[i] = Handler(None) =>
            /\ pc[i] = "raised"
            /\ mode[i] = "none"
            /\ subIdx[i] = 0 /\ subscriptions[i] = <<>>
            /\ pubCalls[i] = 0 /\ acks[i] = 0 /\ msgs[i] = 0
\* the operation was called with the callback unset and has raised
C15_Witness ==
    \E i \in DOMAIN mode :
        /\ given[i] = Handler(None)
        /\ pc[i] = "raised"
        /\ mode[i] = "none"

\* C17: once all k >= 1 subscriptions of an rpc invocation are acknowledged
\* and the request was published, a message delivered to a response handler
\* settles the future, and the future stays settled.
C17_EventualSettlement ==
    \A i \in Invocations :
        (/\ mode[i] = "rpc" /\ NumSubs(i) >= 1
         /\ acks[i] >= NumSubs(i)
         /\ last.op = "suback" /\ last.inv = i /\ last.pub = "ok")
            ~> [](future[i].state # "Pending")
\* published after two acknowledgements, then settled by a message
C17_Witness ==
    \E i \in Invocations :
        /\ mode[i] = "rpc" /\ NumSubs(i) = 2 /\ acks[i] = 2
        /\ pubCalls[i] = 1
        /\ last.op = "response" /\ last.inv = i /\ last.pre = "Pending"
        /\ future[i].state # "Pending"

\* C20: the request is published only when every subscription of the
\* invocation was acknowledged; an acknowledgement repeated for one
\* subscription does not stand for another.
C20_DistinctAcks ==
    \A i \in DOMAIN mode :
        mode[i] = "rpc" /\ pubCalls[i] > 0 =>
            acked[i] = 1..NumSubs(i)

\* C16: the payload of every published request carries a non-empty client
\* token: the caller's when the caller gave a non-empty one, else a fresh
\* one, so that two invocations called without a token publish different
\* tokens.
C16_ClientTokenPresent ==
    \A i \in DOMAIN mode :
        mode[i] = "rpc" /\ pubCalls[i] > 0 =>
            /\ Truthy(TokenOf(request[i]))
            /\ Truthy(given[i].client_token) =>
                   TokenOf(request[i]) = given[i].client_token
            /\ \A j \in DOMAIN mode :
                   /\ j # i /\ mode[j] = "rpc" /\ pubCalls[j] > 0
                   /\ ~Truthy(given[i].client_token)
                   /\ ~Truthy(given[j].client_token)
                   => TokenOf(request[i]) # TokenOf(request[j])
\* two published requests: one called with no token, one with an empty
\* token, carrying different generated tokens
C16_Witness ==
    /\ DOMAIN mode = Invocations2
    /\ \A i \in Invocations2 : mode[i] = "rpc" /\ pubCalls[i] = 1
    /\ given[1].client_token = None
    /\ given[2].client_token = JStr("")
    /\ TokenOf(request[1]) = Uuid(1)
    /\ TokenOf(request[2]) = Uuid(2)

\* C18: what a request object encodes to reads back as the object: every
\* attribute that was set, whatever its value, is found under its key with
\* the same value, and an unset attribute is not found.
C18_SparseEncodeRoundTrip ==
    /\ conv = "DescribeJobExecutionRequest.to_payload" =>
           \A key \in {"clientToken", "executionNumber", "includeJobDocument"} :
               Get(out.val, key) = RequestAttr(obj, key)
    /\ conv = "UpdateJobExecutionRequest.to_payload" =>
           \A key \in UpdateKeys : Get(out.val, key) = RequestAttr(obj, key)

\* the attribute of a decoded object that from_payload fills from key
DecodedAttr(o, key) ==
    CASE key = "executionNumber" -> o.execution_number
      [] key = "versionNumber" -> o.version_number
      [] key = "jobId" -> o.job_id
      [] key = "status" -> o.status

\* C19: decoding propagates every recognized int or string value of the
\* payload unchanged, leaves the attributes of absent keys unset, and
\* ignores unknown keys.
C19_DecodeWithoutCoercion ==
    /\ conv = "JobExecutionData.from_payload" =>
           /\ out.ok
           /\ \A key \in {"executionNumber", "versionNumber", "jobId",
                           "status"} :
                  DecodedAttr(out.val, key) = Get(obj, key)
    /\ conv = "JobExecutionState.from_payload" =>
           /\ out.ok
           /\ \A key \in {"versionNumber", "status"} :
                  DecodedAttr(out.val, key) = Get(obj, key)

\* C21: with acknowledgements handled one at a time the number of entries
\* left in suback_counter stays within 0..k and never grows, and an
\* acknowledgement handled when none is left changes nothing: no publish, no
\* resolution, no error.
C21_GateBounds ==
    [][\A i \in DOMAIN mode :
          /\ suback_counter'[i] \in 0..Len(subscriptions'[i])
          /\ mode[i] # "none" => suback_counter'[i] <= suback_counter[i]
          /\ (suback_counter[i] = 0 /\ acks'[i] = acks[i] + 1) =>
                 /\ suback_counter'[i] = 0
                 /\ pubCalls'[i] = pubCalls[i]
                 /\ future'[i] = future[i]
                 /\ settles'[i] = settles[i]
                 /\ ~last'.escaped]_vars
\* an acknowledgement handled after the gate of an rpc invocation with two
\* subscriptions had completed
C21_Witness ==
    \E i \in DOMAIN mode :
        /\ mode[i] = "rpc" /\ NumSubs(i) = 2
        /\ acks[i] = 3 /\ suback_counter[i] = 0
        /\ last.op = "suback" /\ last.inv = i /\ last.pub = "none"
        /\ ~last.escaped
        /\ pubCalls[i] = 1

\* C22: the outcome of an rpc invocation is settled only after its request
\* was published, so that no publish happens once the outcome is settled.
C22_PhaseOrder ==
    \A i \in DOMAIN mode :
        mode[i] = "rpc" /\ future[i].state # "Pending" => pubCalls[i] >= 1

\* C23: a handler call of one invocation (an acknowledgement or a message)
\* leaves the counter, the future and the publish count of every other
\* invocation as they were, and a request is published only in a step that
\* handles an acknowledgement of its own invocation.
C23_CrossInvocationIsolation ==
    [][\A a \in DOMAIN mode :
          /\ (acks'[a] # acks[a] \/ msgs'[a] # msgs[a]) =>
                 \A b \in DOMAIN mode \ {a} :
                     /\ suback_counter'[b] = suback_counter[b]
                     /\ future'[b] = future[b]
                     /\ pubCalls'[b] = pubCalls[b]
                     /\ settles'[b] = settles[b]
          /\ pubCalls'[a] # pubCalls[a] => acks'[a] = acks[a] + 1]_vars
\* invocation 1 published and was settled by a message while invocation 2,
\* subscribed to the same topics, is pending with nothing acknowledged
C23_Witness ==
    /\ DOMAIN mode = Invocations2
    /\ mode[1] = "rpc" /\ mode[2] = "rpc"
    /\ pubCalls[1] = 1 /\ future[1].state = "Resolved"
    /\ last.op = "response" /\ last.inv = 1
    /\ subIdx[2] = 2 /\ suback_counter[2] = 2 /\ pubCalls[2] = 0
    /\ future[2] = NewFuture

\* C24: with each subscription acknowledged at most once, also right after
\* its subscribe call, the request of an rpc invocation is published only
\* when all its subscribe calls have been issued.
C24_PublishAfterAllSubscribes ==
    \A i \in DOMAIN mode :
        mode[i] = "rpc" /\ pubCalls[i] > 0 =>
            subIdx[i] = Len(subscriptions[i])
\* published by the acknowledgement of the second of two subscriptions,
\* handled before the operation has returned
C24_Witness ==
    \E i \in DOMAIN mode :
        /\ mode[i] = "rpc" /\ NumSubs(i) = 2
        /\ pc[i] = "subscribing"
        /\ acked[i] = {1, 2}
        /\ pubCalls[i] = 1

====
